---------------------------- MODULE Spec2Model ----------------------------
(***************************************************************************)
(* A model of the plant-disease classifier web application:                *)
(*   src/web_app.py  module-level startup (device, LABELS, model load),    *)
(*                   preprocess_image, predict, and the Flask routes       *)
(*                   index, predict_route, uploaded_file;                  *)
(*   src/model.py    SupConMobileNet.forward.                              *)
(*                                                                         *)
(* Numbers.  float32 values in [0,1] are fixed-point integers in units of  *)
(* 1/SCALE with SCALE = 2^20, which is coarser than float32's relative     *)
(* precision of 2^-24: every rounding error of the code is at most the     *)
(* model's.  Logits are integers (in nats), so exp(-n) is a table of       *)
(* fixed-point values that underflows to 0 as a float does.  Products that *)
(* exceed 32 bits are computed by long multiplication (MulDiv).            *)
(*                                                                         *)
(* Pixels.  An image is a size, a mode and one value per band (a uniform   *)
(* colour): conversion, resizing and the array layout changes act on the   *)
(* bands and on the shape exactly as PIL / numpy / torch do.               *)
(*                                                                         *)
(* Backbone.  torchvision's MobileNetV2 feature extractor is modelled by   *)
(* its interface: a deterministic function of the parameters, the          *)
(* BatchNorm buffers, the train/eval flag and the input, which in train    *)
(* mode uses batch statistics and advances the BatchNorm buffers, and in   *)
(* eval mode reads the buffers and writes nothing.                         *)
(***************************************************************************)
EXTENDS Integers, Sequences, FiniteSets, TLC

(***************************************************************************)
(* Program constants                                                       *)
(***************************************************************************)
NUM_CLASSES == 7

RESIZE == 256

MIN_CAPABILITY == 50

SCALE == 2^20

LABEL_LIST ==
    << "anthracnose", "healthy", "powdery", "rust", "sooty_mold", "spot", "yellow" >>

(***************************************************************************)
(* Bounds of the model                                                     *)
(***************************************************************************)
\* number of request threads the server runs at once
MaxThreads == 2

\* BatchNorm's num_batches_tracked is counted up to this value
MaxBatchesTracked == 2

(***************************************************************************)
(* Small helpers                                                           *)
(***************************************************************************)
RECURSIVE SumSeq(_)
SumSeq(s) == IF s = << >> THEN 0 ELSE Head(s) + SumSeq(Tail(s))

MaxOf(s) == CHOOSE m \in { s[i] : i \in 1..Len(s) } : \A i \in 1..Len(s) : s[i] <= m

Abs(x) == IF x < 0 THEN -x ELSE x

\* round-to-nearest quotient of two naturals
DivRound(a, b) == (2 * a + b) \div (2 * b)

\* quotient and remainder of a * b by c, for naturals whose product does not fit
\* the machine word: b is taken bit by bit
RECURSIVE MulDiv(_, _, _)
MulDiv(a, b, c) ==
    IF b = 0 THEN [q |-> 0, r |-> 0]
    ELSE LET h  == MulDiv(a, b \div 2, c)
             q2 == 2 * h.q + (2 * h.r) \div c
             r2 == (2 * h.r) % c
         IN  IF b % 2 = 1
             THEN [q |-> q2 + (a \div c) + (r2 + (a % c)) \div c, r |-> (r2 + (a % c)) % c]
             ELSE [q |-> q2, r |-> r2]

\* a * b / c rounded to nearest
MulDivRound(a, b, c) ==
    LET m == MulDiv(a, b, c) IN m.q + (IF 2 * m.r >= c THEN 1 ELSE 0)

(***************************************************************************)
(* preprocess_image: PIL -> numpy -> torch                                 *)
(***************************************************************************)
\* a variant that keeps the image's own bands
ConvertRGB_keep(img) == img

\* PIL Image.convert("RGB"): grayscale is replicated, alpha is dropped
ConvertRGB(img) ==
    CASE img.mode = "L"    -> [img EXCEPT !.mode = "RGB",
                                          !.bands = << img.bands[1], img.bands[1], img.bands[1] >>]
      [] img.mode = "RGBA" -> [img EXCEPT !.mode = "RGB", !.bands = SubSeq(img.bands, 1, 3)]
      [] OTHER             -> img

\* transforms.Resize(n) with an int: the smaller edge becomes n, the aspect is kept
ResizeTransform_edge(img) ==
    LET w == img.size[1]
        h == img.size[2]
    IN  IF w <= h THEN [img EXCEPT !.size = << RESIZE, (RESIZE * h) \div w >>]
                  ELSE [img EXCEPT !.size = << (RESIZE * w) \div h, RESIZE >>]

\* transforms.Resize((h, w)): the output is exactly h x w; PIL sizes are (w, h).
\* Interpolating a uniform colour gives the same colour.
ResizeTransform(img) == [img EXCEPT !.size = << RESIZE, RESIZE >>]

\* np.array(pil_img).astype(np.float32): layout (H, W, C), or (H, W) for a
\* single-band image; values 0..255
NpArray(img) ==
    [shape |-> IF Len(img.bands) = 1 THEN << img.size[2], img.size[1] >>
               ELSE << img.size[2], img.size[1], Len(img.bands) >>,
     caxis |-> IF Len(img.bands) = 1 THEN 0 ELSE 3,
     vals  |-> img.bands,
     unit  |-> 1,
     dtype |-> "float32",
     error |-> ""]

\* a variant that leaves the values as they are
Div255_skip(a) == a

\* np_img / 255.0 in float32
Div255(a) ==
    [a EXCEPT !.vals = [k \in 1..Len(a.vals) |-> DivRound(a.vals[k] * SCALE, 255 * a.unit)],
              !.unit = SCALE]

\* np.transpose(a, perm), perm 0-based as in numpy; a permutation of another
\* length than the array's rank raises ValueError
Transpose(a, perm) ==
    IF Len(perm) # Len(a.shape)
    THEN [a EXCEPT !.error = "ValueError"]
    ELSE [a EXCEPT !.shape = [i \in 1..Len(perm) |-> a.shape[perm[i] + 1]],
                   !.caxis = CHOOSE i \in 1..Len(perm) : perm[i] + 1 = a.caxis]

\* tensor.unsqueeze(0)
Unsqueeze0(t) == [t EXCEPT !.shape = << 1 >> \o t.shape, !.caxis = t.caxis + 1]

\* torch.tensor(np_img, dtype=torch.float32), created on the CPU
TorchTensor(a) ==
    [shape |-> a.shape, caxis |-> a.caxis, vals |-> a.vals, unit |-> a.unit,
     dtype |-> "float32", error |-> a.error, device |-> "cpu"]

\* tensor.to(device)
To(t, dev) == [t EXCEPT !.device = dev]

preprocess_image(pil_img, dev) ==
    To(Unsqueeze0(TorchTensor(Transpose(Div255(NpArray(
        ResizeTransform(ConvertRGB(pil_img)))), << 2, 0, 1 >>))), dev)

(***************************************************************************)
(* SupConMobileNet (src/model.py)                                          *)
(***************************************************************************)
ReLU6(v) == IF v < 0 THEN 0 ELSE IF v > 6 THEN 6 ELSE v

\* the input tensor's channel means, quantised to quarters
ChannelMeans(x) == [k \in 1..Len(x.vals) |-> (x.vals[k] * 4) \div x.unit]

\* BatchNorm buffers after one forward pass: train mode moves running_mean
\* (kept in tenths of a quarter) towards the batch mean with momentum 0.1 and
\* counts the batch; eval mode writes nothing.
BuffersAfter_always(training, buffers, x) ==
    LET q == ChannelMeans(x)
    IN  [running_mean        |-> (9 * buffers.running_mean + 10 * (SumSeq(q) \div Len(q))) \div 10,
         num_batches_tracked |-> IF buffers.num_batches_tracked < MaxBatchesTracked
                                 THEN buffers.num_batches_tracked + 1
                                 ELSE buffers.num_batches_tracked]

BuffersAfter(training, buffers, x) ==
    IF training THEN BuffersAfter_always(training, buffers, x) ELSE buffers

\* self.feature_extractor(x) followed by adaptive_avg_pool2d(., (1,1)).flatten(1):
\* one pooled feature per channel.  Eval mode normalises with running_mean,
\* train mode with the batch's own mean.
PooledFeatures(m, x) ==
    LET q == ChannelMeans(x)
    IN  [k \in 1..Len(q) |->
            ReLU6(m.params.backbone
                    * (q[k] - (IF m.training THEN q[k] ELSE m.buffers.running_mean \div 10)))]

\* self.classifier(feats): a Linear layer
Classifier(params, feats) ==
    [c \in 1..Len(params.classifier.bias) |->
        SumSeq([k \in 1..Len(feats) |-> params.classifier.weight[c][k] * feats[k]])
          + params.classifier.bias[c]]

\* F.normalize(self.projection_head(feats), dim=1): v / max(|v|, eps), with the
\* 1-norm standing for the 2-norm
Projection(params, feats) ==
    LET v == [k \in 1..Len(feats) |-> params.projection_head * feats[k]]
        n == SumSeq([k \in 1..Len(v) |-> Abs(v[k])])
    IN  [k \in 1..Len(v) |-> (v[k] * SCALE) \div (IF n = 0 THEN 1 ELSE n)]

\* what forward returns for the flag
ForwardReturn_tuple(return_features, logits, proj) ==
    [kind |-> "tuple", logits |-> logits, proj |-> proj]

ForwardReturn(return_features, logits, proj) ==
    IF return_features THEN ForwardReturn_tuple(return_features, logits, proj)
                       ELSE [kind |-> "logits", logits |-> logits]

\* whether forward runs the projection head: `proj = F.normalize(...)` stands
\* before the `if return_features:` test, so it runs on every call
ProjectionRuns(return_features) == TRUE

\* SupConMobileNet.forward(x, return_features) called with grad mode `grad`:
\* the value returned, the BatchNorm buffers it leaves, and what it ran.
Forward(m, x, return_features, grad) ==
    LET feats  == PooledFeatures(m, x)
        proj   == Projection(m.params, feats)
        logits == Classifier(m.params, feats)
    IN  [out             |-> ForwardReturn(return_features, logits, proj),
         buffers         |-> BuffersAfter(m.training, m.buffers, x),
         training        |-> m.training,
         grad            |-> grad,
         return_features |-> return_features,
         proj_computed   |-> ProjectionRuns(return_features)]

(***************************************************************************)
(* predict (src/web_app.py)                                                *)
(***************************************************************************)
\* exp(-n) for n >= 1 in units of 1/SCALE: floor(e^-n * 2^20), 0 past the table
ExpTable ==
    << 385749, 141909, 52205, 19205, 7065, 2599, 956, 351, 129, 47, 17, 6, 2 >>

ExpNeg(n) == IF n = 0 THEN SCALE ELSE IF n <= Len(ExpTable) THEN ExpTable[n] ELSE 0

\* exp(logit - max) without the division by the sum
Softmax_unnormalised(logits) ==
    [i \in 1..Len(logits) |-> ExpNeg(MaxOf(logits) - logits[i])]

\* torch.softmax(logits, dim=1)[0]: exp(l - max) / sum, rounded
Softmax(logits) ==
    LET e == Softmax_unnormalised(logits)
        s == SumSeq(e)
    IN  [i \in 1..Len(logits) |-> MulDivRound(e[i], SCALE, s)]

\* a scan that moves to a later index on an equal value
RECURSIVE ArgmaxLast(_, _, _)
ArgmaxLast(p, i, best) ==
    IF i > Len(p) THEN best - 1
    ELSE IF p[i] >= p[best] THEN ArgmaxLast(p, i + 1, i)
    ELSE ArgmaxLast(p, i + 1, best)

Argmax_last(p) == ArgmaxLast(p, 2, 1)

\* np.argmax: a scan that keeps the first occurrence of the maximum; 0-based
RECURSIVE ArgmaxScan(_, _, _)
ArgmaxScan(p, i, best) ==
    IF i > Len(p) THEN best - 1
    ELSE IF p[i] > p[best] THEN ArgmaxScan(p, i + 1, i)
    ELSE ArgmaxScan(p, i + 1, best)

Argmax(p) == ArgmaxScan(p, 2, 1)

\* torch.no_grad(): the grad mode inside the scope
NoGrad_off(prev) == prev

NoGrad(prev) == FALSE

\* predict(pil_img) on model m with label list `labels`: the values it
\* returns and the forward pass it made.  Threads start with grad mode on.
predict(m, labels, dev, pil_img) ==
    LET tensor        == preprocess_image(pil_img, dev)
        fwd           == Forward(m, tensor, FALSE, NoGrad(TRUE))
        probabilities == Softmax(fwd.out.logits)
        pred_idx      == Argmax(probabilities)
    IN  [pred_label    |-> labels[pred_idx + 1],
         probabilities |-> probabilities,
         pred_idx      |-> pred_idx,
         tensor        |-> tensor,
         fwd           |-> fwd]

(***************************************************************************)
(* The environment: hardware, the weight file on disk, uploads             *)
(***************************************************************************)
\* torch.cuda.is_available() and what get_device_capability(0) does
Hardware ==
    { [cuda |-> FALSE, probe |-> "none",   major |-> 0, minor |-> 0],
      [cuda |-> TRUE,  probe |-> "raises", major |-> 0, minor |-> 0],
      [cuda |-> TRUE,  probe |-> "ok",     major |-> 3, minor |-> 5],
      [cuda |-> TRUE,  probe |-> "ok",     major |-> 5, minor |-> 0] }

\* a Linear(3, n) weight matrix with gain g
ClassifierWeight(g, n) == [c \in 1..n |-> [k \in 1..3 |-> g * (((c + 2 * k) % 4) - 1)]]

\* a state dict with an n-class classifier head
StateDict(g, bias) ==
    [params  |-> [backbone        |-> 1,
                  classifier      |-> [weight |-> ClassifierWeight(g, Len(bias)), bias |-> bias],
                  projection_head |-> 1],
     buffers |-> [running_mean |-> 19, num_batches_tracked |-> 0]]

\* what MODEL_WEIGHTS names: no file, a 7-class state dict, a 5-class state dict
WeightFiles ==
    { [exists |-> FALSE, sd |-> StateDict(0, << 0, 0, 0, 0, 0, 0, 0 >>)],
      [exists |-> TRUE,  sd |-> StateDict(1, << 0, 1, 0, 1, 1, 0, 1 >>)],
      [exists |-> TRUE,  sd |-> StateDict(1, << 0, 1, 0, 1, 0 >>)] }

NoImg == [mode |-> "", size |-> << 0, 0 >>, bands |-> << >>]

ImgGray == [mode |-> "L", size |-> << 64, 64 >>, bands |-> << 200 >>]

ImgRGBA == [mode |-> "RGBA", size |-> << 1024, 768 >>, bands |-> << 0, 90, 255, 128 >>]

\* file contents: no file, a zero-length file, bytes that are no image, an image
Absent == [kind |-> "absent", img |-> NoImg]

Empty == [kind |-> "empty", img |-> NoImg]

Garbage == [kind |-> "garbage", img |-> NoImg]

ImageFile(img) == [kind |-> "image", img |-> img]

Uploads == { Garbage, ImageFile(ImgGray), ImageFile(ImgRGBA) }

\* client-supplied filenames (werkzeug passes them on as sent)
Filenames ==
    { [abs |-> FALSE, parts |-> << "leaf.jpg" >>],
      [abs |-> FALSE, parts |-> << "..", "evil.png" >>] }

NoName == [abs |-> FALSE, parts |-> << >>]

\* UPLOAD_DIR = os.path.join(os.path.dirname(__file__), "uploads")
UPLOAD_DIR == << "app", "uploads" >>

\* os.path.join(dir, name): an absolute name replaces the directory
PathJoin(dir, name) == IF name.abs THEN name.parts ELSE dir \o name.parts

\* the file the operating system opens for a path: ".." steps up
RECURSIVE Resolve(_, _)
Resolve(done, rest) ==
    IF rest = << >> THEN done
    ELSE IF Head(rest) = ".."
         THEN Resolve(IF done = << >> THEN done ELSE SubSeq(done, 1, Len(done) - 1), Tail(rest))
         ELSE Resolve(Append(done, Head(rest)), Tail(rest))

FilePath(name) == Resolve(<< >>, PathJoin(UPLOAD_DIR, name))

Paths == { FilePath(n) : n \in Filenames }

\* werkzeug's safe_join, used by send_from_directory: the path below the
\* directory, or nothing for a name that would leave it
SafeJoinOk(name) ==
    /\ ~name.abs
    /\ name.parts # << >>
    /\ Head(name.parts) # ".."

\* the path names a file below the upload directory
InsideUploadDir(path) ==
    /\ Len(path) > Len(UPLOAD_DIR)
    /\ SubSeq(path, 1, Len(UPLOAD_DIR)) = UPLOAD_DIR

(***************************************************************************)
(* State                                                                   *)
(***************************************************************************)
VARIABLES
    pc,             \* position of the main thread in web_app.py's module code
    hardware,       \* the machine's CUDA support
    weights_file,   \* the file MODEL_WEIGHTS names
    device,         \* the global `device`
    LABELS,         \* the global `LABELS`
    model,          \* the global `model`
    state,          \* the global `state` (the loaded state dict)
    loads,          \* number of torch.load calls made
    fs,             \* files by path
    req,            \* per request thread: the request in progress and its response
    call            \* a single call of preprocess_image / predict

vars == << pc, hardware, weights_file, device, LABELS, model, state, loads, fs, req, call >>

Threads == 1..MaxThreads

NoModel == [built |-> FALSE, params |-> StateDict(0, << >>).params,
            buffers |-> StateDict(0, << >>).buffers, training |-> TRUE, device |-> "cpu"]

NoState == [loaded |-> FALSE, sd |-> StateDict(0, << >>), device |-> "cpu"]

NoResult == [pred_label |-> "", probabilities |-> << >>, pred_idx |-> 0]

NoPage == [filename |-> NoName, predicted |-> "", confidence_percent |-> 0,
           prob_rows |-> << >>]

IdleRequest ==
    [pc |-> "idle", route |-> "", filename |-> NoName, upload |-> Absent,
     opened |-> Absent, decoded |-> NoImg, status |-> 0, outcome |-> "",
     result |-> NoResult, page |-> NoPage]

NoCall == [pc |-> "none", img |-> NoImg]

Init ==
    /\ pc = "select_device"
    /\ hardware \in Hardware
    /\ weights_file \in WeightFiles
    /\ device = "unset"
    /\ LABELS = << >>
    /\ model = NoModel
    /\ state = NoState
    /\ loads = 0
    /\ fs = [p \in Paths |-> Absent]
    /\ req = [t \in Threads |-> IdleRequest]
    /\ call = NoCall

(***************************************************************************)
(* Startup: the module-level code of web_app.py, in source order           *)
(***************************************************************************)
\* device = torch.device("cuda" if torch.cuda.is_available() else "cpu")
SelectDevice ==
    /\ pc = "select_device"
    /\ device' = IF hardware.cuda THEN "cuda" ELSE "cpu"
    /\ pc' = "probe"
    /\ UNCHANGED << hardware, weights_file, LABELS, model, state, loads, fs, req, call >>

\* a comparison that also turns capability 5.0 away
TooOld_inclusive(major, minor) == major * 10 + minor <= MIN_CAPABILITY

\* major * 10 + minor < 50
TooOld(major, minor) == major * 10 + minor < MIN_CAPABILITY

\* the device after the `if device.type == "cuda":` block
DeviceAfterProbe(dev, hw) ==
    IF dev = "cuda"
    THEN IF hw.probe = "raises" THEN "cpu"
         ELSE IF TooOld(hw.major, hw.minor) THEN "cpu" ELSE dev
    ELSE dev

ProbeCapability ==
    /\ pc = "probe"
    /\ device' = DeviceAfterProbe(device, hardware)
    /\ pc' = "labels"
    /\ UNCHANGED << hardware, weights_file, LABELS, model, state, loads, fs, req, call >>

\* LABELS: List[str] = [...]
DefineLabels ==
    /\ pc = "labels"
    /\ LABELS' = LABEL_LIST
    /\ pc' = "construct"
    /\ UNCHANGED << hardware, weights_file, device, model, state, loads, fs, req, call >>

\* SupConMobileNet(num_classes): pretrained backbone, fresh heads, train mode
\* (a new nn.Module is in train mode), on the CPU
NewModel(num_classes) ==
    [built    |-> TRUE,
     params   |-> StateDict(0, [c \in 1..num_classes |-> 0]).params,
     buffers  |-> StateDict(0, [c \in 1..num_classes |-> 0]).buffers,
     training |-> TRUE,
     device   |-> "cpu"]

\* model = SupConMobileNet(num_classes=NUM_CLASSES).to(device)
ConstructModel ==
    /\ pc = "construct"
    /\ model' = [NewModel(NUM_CLASSES) EXCEPT !.device = device]
    /\ pc' = "torch_load"
    /\ UNCHANGED << hardware, weights_file, device, LABELS, state, loads, fs, req, call >>

\* a load that hands back a state dict whether or not the file is there
FileReadable_always(file) == TRUE

\* torch.load raises FileNotFoundError for a missing file
FileReadable(file) == file.exists

\* state = torch.load(MODEL_WEIGHTS, map_location=device, weights_only=False)
TorchLoad ==
    /\ pc = "torch_load"
    /\ loads' = loads + 1
    /\ IF FileReadable(weights_file)
       THEN /\ state' = [loaded |-> TRUE, sd |-> weights_file.sd, device |-> device]
            /\ pc' = "load_state_dict"
       ELSE /\ pc' = "crashed"
            /\ UNCHANGED state
    /\ UNCHANGED << hardware, weights_file, device, LABELS, model, fs, req, call >>

\* a load that copies whatever shapes the file has
ShapesMatch_lenient(m, sd) == TRUE

\* load_state_dict(strict=True): every parameter of the file has the shape the
\* model declares
ShapesMatch(m, sd) ==
    /\ Len(sd.params.classifier.bias) = Len(m.params.classifier.bias)
    /\ Len(sd.params.classifier.weight) = Len(m.params.classifier.weight)

\* model.load_state_dict(state)
LoadStateDict ==
    /\ pc = "load_state_dict"
    /\ IF ShapesMatch(model, state.sd)
       THEN /\ model' = [model EXCEPT !.params = state.sd.params, !.buffers = state.sd.buffers]
            /\ pc' = "eval"
       ELSE /\ pc' = "crashed"
            /\ UNCHANGED model
    /\ UNCHANGED << hardware, weights_file, device, LABELS, state, loads, fs, req, call >>

\* a module left in the mode it was built in
Eval_noop(m) == m

\* nn.Module.eval()
Eval(m) == [m EXCEPT !.training = FALSE]

\* model.eval()
ModelEval ==
    /\ pc = "eval"
    /\ model' = Eval(model)
    /\ pc' = "app_run"
    /\ UNCHANGED << hardware, weights_file, device, LABELS, state, loads, fs, req, call >>

\* app.run(host="0.0.0.0", port=port, debug=False): the server starts to accept
AppRun ==
    /\ pc = "app_run"
    /\ pc' = "serving"
    /\ UNCHANGED << hardware, weights_file, device, LABELS, model, state, loads, fs, req, call >>

Startup ==
    \/ SelectDevice
    \/ ProbeCapability
    \/ DefineLabels
    \/ ConstructModel
    \/ TorchLoad
    \/ LoadStateDict
    \/ ModelEval
    \/ AppRun

(***************************************************************************)
(* Requests: Flask's server runs each request on a thread of its own       *)
(***************************************************************************)
\* thread t is free to take a request (the server accepts only once app.run
\* was reached)
Accepting(t) ==
    /\ pc = "serving"
    /\ req[t].pc \in { "idle", "done" }

Done(r, status, outcome) ==
    [r EXCEPT !.pc = "done", !.status = status, !.outcome = outcome]

\* GET /: index()
Index(t) ==
    /\ Accepting(t)
    /\ req' = [req EXCEPT ![t] = Done([IdleRequest EXCEPT !.route = "index"], 200, "index_page")]
    /\ UNCHANGED << pc, hardware, weights_file, device, LABELS, model, state, loads, fs, call >>

\* send_from_directory(UPLOAD_DIR, filename) finds a file to send
Served(files, name) == SafeJoinOk(name) /\ files[FilePath(name)].kind # "absent"

\* GET /uploads/<path:filename>: uploaded_file(filename)
UploadedFile(t) ==
    /\ Accepting(t)
    /\ \E name \in Filenames :
          LET r == [IdleRequest EXCEPT !.route = "uploads", !.filename = name]
          IN  req' = [req EXCEPT ![t] =
                        IF Served(fs, name)
                        THEN Done([r EXCEPT !.opened = fs[FilePath(name)]], 200, "file_sent")
                        ELSE Done(r, 404, "not_found")]
    /\ UNCHANGED << pc, hardware, weights_file, device, LABELS, model, state, loads, fs, call >>

\* a handler that has no early return
EarlyReturn_never(has_image, name) == FALSE

\* the two early returns of predict_route: `"image" not in request.files`, and
\* `file.filename == ""`
EarlyReturn(has_image, name) == ~has_image \/ name = NoName

\* POST /predict without an "image" part: redirect(url_for("index"))
PredictNoFile(t) ==
    /\ Accepting(t)
    /\ EarlyReturn(FALSE, NoName)
    /\ req' = [req EXCEPT ![t] = Done([IdleRequest EXCEPT !.route = "predict"], 302, "redirect")]
    /\ UNCHANGED << pc, hardware, weights_file, device, LABELS, model, state, loads, fs, call >>

\* POST /predict whose file part has filename "" (a form sent with no file
\* chosen): redirect(url_for("index"))
PredictEmptyName(t) ==
    /\ Accepting(t)
    /\ EarlyReturn(TRUE, NoName)
    /\ req' = [req EXCEPT ![t] =
                 Done([IdleRequest EXCEPT !.route = "predict", !.upload = Empty], 302, "redirect")]
    /\ UNCHANGED << pc, hardware, weights_file, device, LABELS, model, state, loads, fs, call >>

\* POST /predict with a named file: the checks pass, filepath is computed and
\* file.save(filepath) opens the destination for writing, which truncates it
PredictSave(t) ==
    /\ Accepting(t)
    /\ \E name \in Filenames \cup { NoName }, up \in Uploads :
          /\ ~EarlyReturn(TRUE, name)
          /\ req' = [req EXCEPT ![t] =
                       [IdleRequest EXCEPT !.pc = "write", !.route = "predict",
                                           !.filename = name, !.upload = up]]
          /\ fs' = [fs EXCEPT ![FilePath(name)] = Empty]
    /\ UNCHANGED << pc, hardware, weights_file, device, LABELS, model, state, loads, call >>

\* file.save(filepath), second part: the upload's bytes are written
PredictWrite(t) ==
    /\ req[t].pc = "write"
    /\ fs' = [fs EXCEPT ![FilePath(req[t].filename)] = req[t].upload]
    /\ req' = [req EXCEPT ![t].pc = "open"]
    /\ UNCHANGED << pc, hardware, weights_file, device, LABELS, model, state, loads, call >>

\* Image.open(filepath): reads the header of what the file holds now; bytes that
\* are no image raise UnidentifiedImageError, which predict_route does not catch
\* (Flask answers 500)
PredictOpen(t) ==
    /\ req[t].pc = "open"
    /\ LET c == fs[FilePath(req[t].filename)]
       IN  req' = [req EXCEPT ![t] =
                     IF c.kind = "image"
                     THEN [req[t] EXCEPT !.pc = "predict", !.opened = c]
                     ELSE Done(req[t], 500, "unhandled_exception")]
    /\ UNCHANGED << pc, hardware, weights_file, device, LABELS, model, state, loads, fs, call >>

Zip(a, b) == [i \in 1..(IF Len(a) < Len(b) THEN Len(a) ELSE Len(b)) |-> << a[i], b[i] >>]

\* round(float(max(probs) * 100.0), 2), in hundredths of a percent
ConfidencePercent(probs) == MulDivRound(MaxOf(probs), 10000, SCALE)

\* a page that lists the predicted class alone
ResultPage_top(name, labels, r) ==
    [filename           |-> name,
     predicted          |-> r.pred_label,
     confidence_percent |-> MulDivRound(MaxOf(r.probabilities), 10000, SCALE),
     prob_rows          |-> << << r.pred_label, MaxOf(r.probabilities) >> >>]

\* the template variables of a result page
ResultPage(name, labels, r) ==
    [filename           |-> name,
     predicted          |-> r.pred_label,
     confidence_percent |-> ConfidencePercent(r.probabilities),
     prob_rows          |-> Zip(labels, r.probabilities)]

\* predict(pil_img) and the rendering.  PIL decodes the pixels only now, in
\* convert(): from the bytes it saw at open or from what the file holds now.
\* The forward pass leaves the model's buffers as forward leaves them.
PredictRun(t) ==
    /\ req[t].pc = "predict"
    /\ \E c \in { req[t].opened, fs[FilePath(req[t].filename)] } :
          IF c.kind = "image"
          THEN LET r == predict(model, LABELS, device, c.img)
               IN  /\ req' = [req EXCEPT ![t] =
                                Done([req[t] EXCEPT !.decoded = c.img,
                                                    !.result = r,
                                                    !.page = ResultPage(req[t].filename, LABELS, r)],
                                     200, "rendered")]
                   /\ model' = [model EXCEPT !.buffers = r.fwd.buffers]
          ELSE /\ req' = [req EXCEPT ![t] = Done(req[t], 500, "unhandled_exception")]
               /\ UNCHANGED model
    /\ UNCHANGED << pc, hardware, weights_file, device, LABELS, state, loads, fs, call >>

Serve(t) ==
    \/ Index(t)
    \/ UploadedFile(t)
    \/ PredictNoFile(t)
    \/ PredictEmptyName(t)
    \/ PredictSave(t)
    \/ PredictWrite(t)
    \/ PredictOpen(t)
    \/ PredictRun(t)

Next ==
    \/ Startup
    \/ \E t \in Threads : Serve(t)

Spec == Init /\ [][Next]_vars

(***************************************************************************)
(* Single calls of preprocess_image and of predict, on a started process   *)
(***************************************************************************)
\* the device the startup code settles on for a machine
StartedDevice(hw) == DeviceAfterProbe(IF hw.cuda THEN "cuda" ELSE "cpu", hw)

\* the model once the startup code has run with state dict sd
StartedModel(sd, dev) ==
    Eval([NewModel(NUM_CLASSES) EXCEPT !.device = dev, !.params = sd.params,
                                       !.buffers = sd.buffers])

\* the process after a startup that reached app.run
Started(hw, file) ==
    /\ pc = "serving"
    /\ hardware = hw
    /\ weights_file = file
    /\ device = StartedDevice(hw)
    /\ LABELS = LABEL_LIST
    /\ model = StartedModel(file.sd, StartedDevice(hw))
    /\ state = [loaded |-> TRUE, sd |-> file.sd, device |-> StartedDevice(hw)]
    /\ loads = 1
    /\ fs = [p \in Paths |-> Absent]
    /\ req = [t \in Threads |-> IdleRequest]

\* largest classifier bias of the weight files tried, besides the saturating one
MaxBias == 1

BandValues == { 0, 128, 255 }

Widths == { 1, 64, 1024 }

Heights == { 1, 64, 768 }

BandsOf(mode) ==
    CASE mode = "L"    -> [i \in 1..1 |-> BandValues]
      [] mode = "RGB"  -> [i \in 1..3 |-> BandValues]
      [] mode = "RGBA" -> [i \in 1..4 |-> BandValues]

\* decoded images of every mode, of square and non-square sizes
CallImages ==
    UNION { { [mode |-> m, size |-> << w, h >>, bands |-> b] :
                w \in Widths, h \in Heights, b \in [1..Len(BandsOf(m)) -> BandValues] } :
            m \in { "L", "RGB", "RGBA" } }

\* 7-class weight files: every bias vector over 0..MaxBias and a bias of 20,
\* which makes the other classes' exponentials underflow
CallWeightFiles ==
    { [exists |-> TRUE, sd |-> StateDict(g, b)] :
        g \in { 0, 1 }, b \in [1..NUM_CLASSES -> (0..MaxBias) \cup { 20 }] }

InitPreprocess ==
    /\ \E hw \in Hardware, file \in { f \in WeightFiles : f.exists /\ ShapesMatch(NewModel(NUM_CLASSES), f.sd) } :
          Started(hw, file)
    /\ call \in { [pc |-> "start", img |-> i] : i \in CallImages }

CallPreprocess ==
    /\ call.pc = "start"
    /\ call' = [pc |-> "done", img |-> call.img, tensor |-> preprocess_image(call.img, device)]
    /\ UNCHANGED << pc, hardware, weights_file, device, LABELS, model, state, loads, fs, req >>

SpecPreprocess == InitPreprocess /\ [][CallPreprocess]_vars

InitPredict ==
    /\ \E hw \in { h \in Hardware : ~h.cuda }, file \in CallWeightFiles :
          Started(hw, file)
    /\ call \in { [pc |-> "start", img |-> i] : i \in { ImgGray, ImgRGBA } }

CallPredict ==
    /\ call.pc = "start"
    /\ LET r == predict(model, LABELS, device, call.img)
       IN  /\ call' = [pc |-> "done", img |-> call.img, result |-> r]
           /\ model' = [model EXCEPT !.buffers = r.fwd.buffers]
    /\ UNCHANGED << pc, hardware, weights_file, device, LABELS, state, loads, fs, req >>

SpecPredict == InitPredict /\ [][CallPredict]_vars

\* a single call of forward on the started model, with either flag
InitForward ==
    /\ \E hw \in Hardware, file \in { f \in WeightFiles : f.exists /\ ShapesMatch(NewModel(NUM_CLASSES), f.sd) } :
          Started(hw, file)
    /\ call \in { [pc |-> "start", img |-> i, return_features |-> rf] :
                    i \in CallImages, rf \in BOOLEAN }

CallForward ==
    /\ call.pc = "start"
    /\ LET f == Forward(model, preprocess_image(call.img, device), call.return_features,
                        NoGrad(TRUE))
       IN  /\ call' = [pc |-> "done", img |-> call.img,
                       return_features |-> call.return_features, fwd |-> f]
           /\ model' = [model EXCEPT !.buffers = f.buffers]
    /\ UNCHANGED << pc, hardware, weights_file, device, LABELS, state, loads, fs, req >>

SpecForward == InitForward /\ [][CallForward]_vars

(***************************************************************************)
(* Properties                                                              *)
(***************************************************************************)
Rendered(t) == req[t].outcome = "rendered"

\* C1: the label predict() returns is LABELS[i] for the index i of the largest
\* probability, and of the entries that share the largest value i is the first.
C1_ArgmaxFirstOccurrence ==
    call.pc = "done" =>
        LET p == call.result.probabilities
            i == call.result.pred_idx + 1
        IN  /\ i \in 1..Len(p)
            /\ call.result.pred_label = LABELS[i]
            /\ \A j \in 1..Len(p) : p[j] <= p[i]
            /\ \A j \in 1..(i - 1) : p[j] < p[i]

\* a call whose largest probability occurs twice, first at an index past the
\* vector's first entry
C1_Witness ==
    /\ call.pc = "done"
    /\ LET p == call.result.probabilities
           i == call.result.pred_idx + 1
       IN  /\ i > 1
           /\ \E j \in (i + 1)..Len(p) : p[j] = p[i]
           /\ call.result.pred_label = LABELS[i]

\* 1e-5, in units of 1/SCALE
Tolerance == SCALE \div 100000

\* C6: the probability vector predict() returns has exactly 7 entries, each in
\* [0,1], and they sum to 1 within 1e-5.
C6_ProbabilityVector ==
    call.pc = "done" =>
        LET p == call.result.probabilities
        IN  /\ Len(p) = 7
            /\ \A i \in 1..Len(p) : 0 <= p[i] /\ p[i] <= SCALE
            /\ Abs(SumSeq(p) - SCALE) <= Tolerance

\* a call whose rounded probabilities do not sum to exactly 1, one of which
\* underflowed to 0
C6_Witness ==
    /\ call.pc = "done"
    /\ LET p == call.result.probabilities
       IN  /\ SumSeq(p) # SCALE
           /\ \E i \in 1..Len(p) : p[i] = 0
           /\ \E i \in 1..Len(p) : p[i] > 0 /\ p[i] < SCALE

\* C7: for an image of any size and of mode L, RGB or RGBA, preprocess_image
\* raises nothing and returns a float32 tensor of shape (1, 3, 256, 256), laid
\* out channel-first, whose values lie in [0,1].
C7_PreprocessShapeRange ==
    call.pc = "done" =>
        LET x == call.tensor
        IN  /\ x.error = ""
            /\ x.shape = << 1, 3, 256, 256 >>
            /\ x.caxis = 2
            /\ x.dtype = "float32"
            /\ Len(x.vals) = 3
            /\ \A k \in 1..Len(x.vals) : 0 <= x.vals[k] /\ x.vals[k] <= x.unit
            /\ x.unit = SCALE

\* a non-square RGBA image and its tensor
C7_Witness ==
    /\ call.pc = "done"
    /\ call.img.mode = "RGBA"
    /\ call.img.size = << 1024, 1 >>
    /\ call.tensor.shape = << 1, 3, 256, 256 >>
    /\ call.tensor.vals = << 0, SCALE, DivRound(128 * SCALE, 255) >>

\* a POST /predict request that got past the filename checks and has ended
PredictEnded(t) ==
    /\ req[t].pc = "done"
    /\ req[t].route = "predict"
    /\ req[t].filename # NoName

\* C2: a POST /predict whose uploaded bytes are no image ends in a decode error
\* that the handler caught and reported: not in an unhandled exception, and not
\* in a rendered prediction.
C2_DecodeErrorReported ==
    \A t \in Threads :
        (PredictEnded(t) /\ req[t].upload.kind # "image") =>
            /\ req[t].outcome = "decode_error_reported"
            /\ req[t].outcome # "unhandled_exception"
            /\ req[t].outcome # "rendered"

\* C3: whatever the interleaving, the image a request decodes and classifies is
\* the image that request uploaded.
C3_OwnImageClassified ==
    \A t \in Threads :
        (PredictEnded(t) /\ req[t].upload.kind = "image") =>
            /\ Rendered(t)
            /\ req[t].decoded = req[t].upload.img

\* C4: the weights are loaded exactly once, at startup, and while the server
\* serves, the model's parameters and buffers are those of the weight file, the
\* model is in eval mode and LABELS is the list the module defined.
C4_LoadedOnceThenImmutable ==
    /\ loads <= 1
    /\ pc = "serving" =>
          /\ loads = 1
          /\ model.params = weights_file.sd.params
          /\ model.buffers = weights_file.sd.buffers
          /\ model.training = FALSE
          /\ LABELS = LABEL_LIST

\* requests of all three routes have been served, a forward pass among them
C4_Witness ==
    /\ pc = "serving"
    /\ \E t \in Threads : Rendered(t)
    /\ \E t \in Threads : req[t].outcome \in { "index_page", "file_sent" }
    /\ \E p \in Paths : fs[p].kind = "image"

\* the weight file is there and its classifier head has 7 classes
WeightsUsable ==
    /\ weights_file.exists
    /\ Len(weights_file.sd.params.classifier.bias) = 7
    /\ Len(weights_file.sd.params.classifier.weight) = 7

\* C5: with a missing or shape-mismatched weight file the server never starts to
\* serve: a request is handled only in a process whose weight load succeeded.
C5_NoServingWithoutWeights ==
    (pc \in { "app_run", "serving" } \/ \E t \in Threads : req[t].pc # "idle") =>
        /\ WeightsUsable
        /\ state.loaded
        /\ model.params = weights_file.sd.params

\* startup has halted on a weight file whose classifier head has 5 classes, and
\* no request was taken
C5_Witness ==
    /\ pc = "crashed"
    /\ weights_file.exists
    /\ ~WeightsUsable
    /\ \A t \in Threads : req[t] = IdleRequest

\* the device the claim names for a machine
ClaimedDevice(hw) ==
    IF hw.cuda /\ hw.probe = "ok" /\ hw.major * 10 + hw.minor >= 50 THEN "cuda" ELSE "cpu"

\* C8: once the startup code has chosen it, the device is the accelerator
\* exactly when CUDA is available, the capability probe does not raise and the
\* capability is at least 50, and the CPU otherwise; the model is placed on it,
\* the weights are mapped to it and every request's tensor is on it.
C8_DeviceDecidedAtStartup ==
    /\ pc \notin { "select_device", "probe" } => device = ClaimedDevice(hardware)
    /\ model.built => model.device = ClaimedDevice(hardware)
    /\ state.loaded => state.device = ClaimedDevice(hardware)
    /\ \A t \in Threads : Rendered(t) => req[t].result.tensor.device = ClaimedDevice(hardware)

\* CUDA is available, the probe raised, and a request was classified on the CPU
C8_Witness ==
    /\ hardware.cuda
    /\ hardware.probe = "raises"
    /\ device = "cpu"
    /\ \E t \in Threads : Rendered(t) /\ req[t].result.tensor.device = "cpu"

\* C9: two predict() calls on the same decoded image give the same preprocessed
\* tensor, the same label and the same probability vector, however far apart
\* they are made (a thread keeps its last response while the other thread
\* serves any number of requests).
C9_Deterministic ==
    \A t1, t2 \in Threads :
        (Rendered(t1) /\ Rendered(t2) /\ req[t1].decoded = req[t2].decoded) =>
            /\ req[t1].result.tensor = req[t2].result.tensor
            /\ req[t1].result.pred_label = req[t2].result.pred_label
            /\ req[t1].result.probabilities = req[t2].result.probabilities

\* two threads have classified the same image, uploaded under different names
C9_Witness ==
    \E t1, t2 \in Threads :
        /\ t1 # t2
        /\ Rendered(t1) /\ Rendered(t2)
        /\ req[t1].decoded = req[t2].decoded
        /\ req[t1].filename # req[t2].filename

\* C10: every forward pass made for a request ran on the model in eval mode,
\* with gradients off and return_features False, and returned the logits alone.
C10_ForwardInInferenceMode ==
    \A t \in Threads :
        Rendered(t) =>
            /\ req[t].result.fwd.training = FALSE
            /\ req[t].result.fwd.grad = FALSE
            /\ req[t].result.fwd.return_features = FALSE
            /\ req[t].result.fwd.out.kind = "logits"
            /\ Len(req[t].result.fwd.out.logits) = 7

\* a request was classified, so a forward pass was made
C10_Witness ==
    \E t \in Threads :
        /\ Rendered(t)
        /\ req[t].result.fwd.out.kind = "logits"
        /\ req[t].result.fwd.proj_computed

\* C11: a rendered result page lists all 7 classes in the order of LABELS, row
\* i pairing LABELS[i] with probability i, and the confidence it displays is
\* the probability (as a percentage, two decimals) of the predicted label,
\* which is one of the 7 labels.
C11_FullDistributionRendered ==
    \A t \in Threads :
        Rendered(t) =>
            LET rows == req[t].page.prob_rows
                p    == req[t].result.probabilities
            IN  /\ Len(rows) = 7
                /\ \A i \in 1..Len(rows) : rows[i] = << LABEL_LIST[i], p[i] >>
                /\ \E i \in 1..Len(rows) :
                      /\ rows[i][1] = req[t].page.predicted
                      /\ req[t].page.confidence_percent = MulDivRound(rows[i][2], 10000, SCALE)
                /\ req[t].page.filename = req[t].filename

\* a page whose predicted class is not the first label and whose rows hold at
\* least three different probabilities
C11_Witness ==
    \E t \in Threads :
        /\ Rendered(t)
        /\ req[t].page.predicted # LABEL_LIST[1]
        /\ Len(req[t].page.prob_rows) = 7
        /\ Cardinality({ req[t].page.prob_rows[i][2] : i \in 1..7 }) >= 3

\* C12, as claimed: with return_features False the projection head is not run,
\* the embedding is computed only when the caller asks for it, and forward
\* leaves the model as it was.
C12_ProjectionOnlyOnRequest ==
    call.pc = "done" =>
        /\ call.fwd.proj_computed <=> call.return_features
        /\ model = StartedModel(weights_file.sd, device)

\* C12, amended: forward runs the projection head on every call and returns the
\* embedding only when return_features is True (otherwise the logits alone, 7
\* of them); on the started model, which is in eval mode, it leaves the
\* parameters, the buffers and the mode as they were, for either flag.
C12_ProjectionComputedNotReturned ==
    call.pc = "done" =>
        /\ call.fwd.proj_computed
        /\ call.fwd.out.kind = (IF call.return_features THEN "tuple" ELSE "logits")
        /\ Len(call.fwd.out.logits) = 7
        /\ call.return_features => Len(call.fwd.out.proj) = 3
        /\ model = StartedModel(weights_file.sd, device)
        /\ model.training = FALSE

\* an inference-path call: the embedding was computed and the logits alone
\* were returned
C12_Witness ==
    /\ call.pc = "done"
    /\ ~call.return_features
    /\ call.fwd.proj_computed
    /\ call.fwd.out.kind = "logits"
    /\ call.img.mode = "L"

\* C13: a POST /predict that has no "image" part, or whose file part has an
\* empty filename, is answered at once with a redirect; the step writes no
\* file, runs no forward pass (no result, model untouched) and leaves the
\* other requests alone.  (The step that takes the request is the one that
\* changes the thread's request record.)
C13_EarlyReturnChangesNothing ==
    [][\A t \in Threads :
          ( /\ req[t].pc \in { "idle", "done" }
            /\ req'[t] # req[t]
            /\ req'[t].route = "predict"
            /\ req'[t].upload = Absent \/ req'[t].filename = NoName )
          => /\ req'[t].pc = "done"
             /\ req'[t].status = 302
             /\ req'[t].outcome = "redirect"
             /\ req'[t].result = NoResult
             /\ req'[t].page = NoPage
             /\ fs' = fs
             /\ model' = model
             /\ \A u \in Threads \ { t } : req'[u] = req[u]]_vars

\* both early returns taken while an upload is on disk
C13_Witness ==
    \E t, u \in Threads :
        /\ req[t].route = "predict" /\ req[t].outcome = "redirect" /\ req[t].upload = Absent
        /\ req[u].route = "predict" /\ req[u].outcome = "redirect" /\ req[u].upload = Empty
        /\ \E q \in DOMAIN fs : fs[q].kind = "image"

\* C14: whatever filenames the clients send, every file that POST /predict
\* created or overwrote lies inside UPLOAD_DIR.
C14_WritesStayInsideUploadDir ==
    \A p \in DOMAIN fs : fs[p].kind # "absent" => InsideUploadDir(p)

\* C15: after a POST /predict whose upload failed to decode or to classify,
\* the file is present in the upload directory under the uploaded filename and
\* GET /uploads/<filename> serves it.
C15_FailedUploadStaysServed ==
    \A t \in Threads :
        (PredictEnded(t) /\ req[t].status = 500) =>
            /\ fs[FilePath(req[t].filename)].kind # "absent"
            /\ InsideUploadDir(FilePath(req[t].filename))
            /\ Served(fs, req[t].filename)

=============================================================================
